---- MODULE Spec2Model ----
(***************************************************************************)
(* tcping (src/src/main.rs): a TCP reachability probe.  main validates the *)
(* command line, run_connection_tests performs interval_count timed        *)
(* connection attempts feeding a ResultCollection, display_summary prints  *)
(* the aggregates.                                                         *)
(*                                                                         *)
(* Numbers.  The f64 fields of ResultCollection hold whole numbers of      *)
(* milliseconds here (every such value and every sum and product of them   *)
(* that the model reaches is exactly representable in an f64); the results *)
(* of the getters, which divide, are exact rationals <<num, den>> in       *)
(* lowest terms with den > 0.  f64 rounding is not modelled.               *)
(***************************************************************************)
EXTENDS Integers, Sequences, FiniteSets, TLC

\* ------------------------------------------------------------- bounds
\* Largest number of add_interval calls made on one accumulator (SpecAcc).
MaxCalls == 4
\* Largest interval_count (-i) and wait_interval (-w) of a run (Spec).
MaxIntervals == 3
MaxWait == 2
\* Largest number of flag/value pairs on the command line (SpecMain), and
\* of arguments, program name included, of a scan with its history kept
\* (SpecScan).
MaxPairs == 4
MaxScan == 5

\* The elapsed milliseconds an add_interval call may be handed.
SampleMillis == {0, 10, 20, 30}
\* What Instant::elapsed().as_micros() may return for a successful connect.
ElapsedMicros == {10000, 20000, 30000}
\* The io::Error a failed connect_timeout may carry.
ConnectErrors == {"refused", "timed out"}

\* ------------------------------------------------- exact arithmetic
Abs(x) == IF x < 0 THEN -x ELSE x

RECURSIVE GCD(_, _)
GCD(a, b) == IF b = 0 THEN a ELSE GCD(b, a % b)

\* The rational n/d (d # 0) in lowest terms with a positive denominator.
Rat(n, d) ==
    LET g == GCD(Abs(n), Abs(d))
        s == IF d < 0 THEN -1 ELSE 1
    IN  <<(s * n) \div g, (s * d) \div g>>

F(x) == <<x, 1>>
RAdd(a, b) == Rat(a[1] * b[2] + b[1] * a[2], a[2] * b[2])
RSub(a, b) == Rat(a[1] * b[2] - b[1] * a[2], a[2] * b[2])
RMul(a, b) == Rat(a[1] * b[1], a[2] * b[2])
RDiv(a, b) == Rat(a[1] * b[2], a[2] * b[1])
RLe(a, b) == a[1] * b[2] <= b[1] * a[2]

\* f64::sqrt of a rational r: the exact root <<num, den>> when numerator and
\* denominator are perfect squares, otherwise the surd <<r[1], r[2], 2>>, the
\* second root of r, kept symbolically (so Sqrt is injective, as sqrt is).
IsSquare(n) == \E k \in 0..n : k * k = n
Root(n) == CHOOSE k \in 0..n : k * k = n
Sqrt(r) ==
    IF IsSquare(r[1]) /\ IsSquare(r[2])
    THEN <<Root(r[1]), Root(r[2])>>
    ELSE <<r[1], r[2], 2>>

\* ------------------------------------------------- ResultCollection
\* std::f64::MAX and std::f64::MIN: the largest and the smallest finite f64,
\* stood for by the largest and smallest numbers of the model.
F64_MAX == 2147483647
F64_MIN == -2147483647

new_seed0 ==
    [iterations |-> 0, successes |-> 0, millis_min |-> 0, millis_max |-> 0,
     millis_squared |-> 0, millis_added |-> 0]

new ==
    [iterations |-> 0, successes |-> 0,
     millis_min |-> F64_MAX, millis_max |-> F64_MIN,
     millis_squared |-> 0, millis_added |-> 0]

\* add_interval with iterations counted only for a successful attempt.
add_interval_count_in_if(self, successful, millis) ==
    IF successful
    THEN [self EXCEPT
            !.iterations = self.iterations + 1,
            !.successes = self.successes + 1,
            !.millis_added = self.millis_added + millis,
            !.millis_squared = self.millis_squared + (millis * millis),
            !.millis_min = IF millis < self.millis_min THEN millis ELSE @,
            !.millis_max = IF millis > self.millis_max THEN millis ELSE @]
    ELSE self

\* add_interval with the totals updated outside the success test.
add_interval_totals_always(self, successful, millis) ==
    LET counted == [self EXCEPT
                      !.iterations = self.iterations + 1,
                      !.millis_added = self.millis_added + millis,
                      !.millis_squared = self.millis_squared + (millis * millis)]
    IN  IF successful
        THEN [counted EXCEPT
                !.successes = self.successes + 1,
                !.millis_min = IF millis < self.millis_min THEN millis ELSE @,
                !.millis_max = IF millis > self.millis_max THEN millis ELSE @]
        ELSE counted

\* add_interval with the max comparison in an else branch of the min one.
add_interval_else_if(self, successful, millis) ==
    LET counted == [self EXCEPT !.iterations = self.iterations + 1]
    IN  IF successful
        THEN [counted EXCEPT
                !.successes = self.successes + 1,
                !.millis_added = self.millis_added + millis,
                !.millis_squared = self.millis_squared + (millis * millis),
                !.millis_min = IF millis < self.millis_min THEN millis ELSE @,
                !.millis_max = IF millis < self.millis_min THEN @
                               ELSE IF millis > self.millis_max THEN millis ELSE @]
        ELSE counted

\* add_interval with the min comparison the wrong way round.
add_interval_min_flipped(self, successful, millis) ==
    LET counted == [self EXCEPT !.iterations = self.iterations + 1]
    IN  IF successful
        THEN [counted EXCEPT
                !.successes = self.successes + 1,
                !.millis_added = self.millis_added + millis,
                !.millis_squared = self.millis_squared + (millis * millis),
                !.millis_min = IF millis > self.millis_min THEN millis ELSE @,
                !.millis_max = IF millis > self.millis_max THEN millis ELSE @]
        ELSE counted

add_interval(self, successful, millis) ==
    LET counted == [self EXCEPT !.iterations = self.iterations + 1]
    IN  IF successful
        THEN [counted EXCEPT
                !.successes = self.successes + 1,
                !.millis_added = self.millis_added + millis,
                !.millis_squared = self.millis_squared + (millis * millis),
                !.millis_min = IF millis < self.millis_min THEN millis ELSE @,
                !.millis_max = IF millis > self.millis_max THEN millis ELSE @]
        ELSE counted

\* get_avg dividing by the attempts instead of the successes.
get_avg_by_iterations(self) ==
    IF self.successes = 0 THEN F(0)
    ELSE RDiv(F(self.millis_added), F(self.iterations))

get_avg(self) ==
    IF self.successes = 0 THEN F(0)
    ELSE RDiv(F(self.millis_added), F(self.successes))

\* The variance of line 51 with the factor 2.0 of the cross term lost.
variance_no_factor(self) ==
    LET n == F(self.successes)
        avg == RDiv(F(self.millis_added), n)
    IN  RDiv(RSub(RAdd(F(self.millis_squared), RMul(RMul(n, avg), avg)),
                  RMul(F(self.millis_added), avg)),
             n)

\* The local `variance` of get_std_dev (successes # 0).
variance(self) ==
    LET n == F(self.successes)
        avg == RDiv(F(self.millis_added), n)
    IN  RDiv(RSub(RAdd(F(self.millis_squared), RMul(RMul(n, avg), avg)),
                  RMul(RMul(F(2), F(self.millis_added)), avg)),
             n)

get_std_dev(self) ==
    IF self.successes = 0 THEN F(0) ELSE Sqrt(variance(self))

\* get_min without the test for an empty collection.
get_min_unguarded(self) == F(self.millis_min)

get_min(self) ==
    IF self.successes = 0 THEN F(0) ELSE F(self.millis_min)

get_max(self) ==
    IF self.successes = 0 THEN F(0) ELSE F(self.millis_max)

\* --------------------------------------------------------------- state
VARIABLES
    result_col,   \* main's result_collection: the ResultCollection
    prog_params,  \* the ProgParameters ProgParameters::new returned
    pc,           \* where the program is
    stream,       \* the TcpStream of the current attempt: "none" or "open"
    output,       \* the lines printed to standard output
    exit_code,    \* the process's exit status, -1 while it runs
    samples,      \* history: the <<successful, millis>> of every add_interval call
    connects,     \* history: the outcome of every connect_timeout call
    waits,        \* history: the number of thread::sleep calls
    cmd_line_opt, \* ProgParameters::new: what the scan expects next
    option_map,   \* ProgParameters::new: the HashMap from option to value
    argn,         \* ProgParameters::new: how many arguments args_iter has yielded
    arg,          \* ProgParameters::new: the argument args_iter yielded last
    args          \* history: the arguments yielded so far (kept in SpecScan)

vars == <<result_col, prog_params, pc, stream, output, exit_code,
          samples, connects, waits, cmd_line_opt, option_map, argn, arg, args>>

\* The locals of ProgParameters::new, and the history of its scan.
scan_vars == <<cmd_line_opt, option_map, argn, arg, args>>

\* HashMap::new(): no key.
EmptyMap == [k \in {} |-> ""]

\* The configurations ProgParameters::new can return: interval_count >= 1
\* (line 134), wait_interval >= 1 s (line 141).  Host, port, timeout and
\* socket address do not influence the control flow of the run.
ProgParameters ==
    [interval_count : 1..MaxIntervals, wait_interval : 1..MaxWait]

\* (now.elapsed().as_micros() as f64) / 1000.0, for whole milliseconds.
millis_of(micros) == micros \div 1000

\* ----------------------------------------------- the accumulator alone
\* A fresh ResultCollection driven by arbitrary add_interval calls.
InitAcc ==
    /\ result_col = new
    /\ prog_params = [interval_count |-> 1, wait_interval |-> 1]
    /\ pc = "accumulate"
    /\ stream = "none"
    /\ output = <<>>
    /\ exit_code = -1
    /\ samples = <<>>
    /\ connects = <<>>
    /\ waits = 0
    /\ cmd_line_opt = "Unset"
    /\ option_map = EmptyMap
    /\ argn = 0
    /\ arg = ""
    /\ args = <<>>

AddInterval(successful, millis) ==
    /\ pc = "accumulate"
    /\ Len(samples) < MaxCalls
    /\ result_col' = add_interval(result_col, successful, millis)
    /\ samples' = Append(samples, <<successful, millis>>)
    /\ UNCHANGED <<scan_vars, prog_params, pc, stream, output, exit_code, connects, waits>>

NextAcc == \E successful \in BOOLEAN, millis \in SampleMillis :
               AddInterval(successful, millis)

SpecAcc == InitAcc /\ [][NextAcc]_vars

\* ------------------------------------------------------ the whole run
\* main after ProgParameters::new returned Ok: line 231.
Init ==
    /\ result_col = new
    /\ prog_params \in ProgParameters
    /\ pc = "connect"
    /\ stream = "none"
    /\ output = <<>>
    /\ exit_code = -1
    /\ samples = <<>>
    /\ connects = <<>>
    /\ waits = 0
    /\ cmd_line_opt = "Unset"
    /\ option_map = EmptyMap
    /\ argn = 0
    /\ arg = ""
    /\ args = <<>>

\* Lines 193-197: connect_timeout returned Ok(stream).
ConnectOk(micros) ==
    /\ pc = "connect"
    /\ connects' = Append(connects, TRUE)
    /\ stream' = "open"
    /\ output' = Append(output, <<"Connected", millis_of(micros)>>)
    /\ result_col' = add_interval(result_col, TRUE, millis_of(micros))
    /\ samples' = Append(samples, <<TRUE, millis_of(micros)>>)
    /\ pc' = "shutdown"
    /\ UNCHANGED <<scan_vars, prog_params, exit_code, waits>>

\* Lines 193, 200-203: connect_timeout returned Err(error).
ConnectErr(error) ==
    /\ pc = "connect"
    /\ connects' = Append(connects, FALSE)
    /\ output' = Append(output, <<"Failed", error>>)
    /\ result_col' = add_interval(result_col, FALSE, 0)
    /\ samples' = Append(samples, <<FALSE, 0>>)
    /\ pc' = "test"
    /\ UNCHANGED <<scan_vars, prog_params, stream, exit_code, waits>>

\* Line 198: shutdown(Both) returned Ok(()); the stream is dropped.
ShutdownOk ==
    /\ pc = "shutdown"
    /\ stream' = "none"
    /\ pc' = "test"
    /\ UNCHANGED <<scan_vars, result_col, prog_params, output, exit_code, samples,
                   connects, waits>>

\* Line 198: shutdown(Both) returned Err (the peer has already reset the
\* connection: ENOTCONN), and unwrap() panics: the process ends with 101.
ShutdownErr ==
    /\ pc = "shutdown"
    /\ stream' = "none"
    /\ pc' = "panicked"
    /\ exit_code' = 101
    /\ UNCHANGED <<scan_vars, result_col, prog_params, output, samples, connects, waits>>

\* Lines 205-206: the last attempt was made; the runner returns to main.
Break ==
    /\ pc = "test"
    /\ result_col.iterations = prog_params.interval_count
    /\ pc' = "summary"
    /\ UNCHANGED <<scan_vars, result_col, prog_params, stream, output, exit_code,
                   samples, connects, waits>>

\* The loop going round without the thread::sleep of line 208.
Sleep_skipped ==
    /\ pc = "test"
    /\ result_col.iterations # prog_params.interval_count
    /\ pc' = "connect"
    /\ UNCHANGED <<scan_vars, result_col, prog_params, stream, output,
                   exit_code, samples, connects, waits>>

\* Lines 207-208: thread::sleep(wait_interval), then the next iteration.
Sleep ==
    /\ pc = "test"
    /\ result_col.iterations # prog_params.interval_count
    /\ waits' = waits + 1
    /\ pc' = "connect"
    /\ UNCHANGED <<scan_vars, result_col, prog_params, stream, output, exit_code,
                   samples, connects>>

\* Lines 213-223 and 233-234: the summary is printed and main returns.
display_summary ==
    /\ pc = "summary"
    /\ output' = Append(output,
                        <<"Summary", result_col.successes, result_col.iterations,
                          get_min(result_col), get_max(result_col),
                          get_avg(result_col), get_std_dev(result_col)>>)
    /\ pc' = "exited"
    /\ exit_code' = 0
    /\ UNCHANGED <<scan_vars, result_col, prog_params, stream, samples, connects, waits>>

Next ==
    \/ \E micros \in ElapsedMicros : ConnectOk(micros)
    \/ \E error \in ConnectErrors : ConnectErr(error)
    \/ ShutdownOk
    \/ ShutdownErr
    \/ Break
    \/ Sleep
    \/ display_summary

Spec == Init /\ [][Next]_vars

\* ------------------------------------------------ ProgParameters::new
\* The arguments a command line is made of: the five options, a flag the
\* program does not know, and the values 0, 2 and -1.
KnownFlags == {"-h", "-p", "-i", "-t", "-w"}
Tokens == KnownFlags \cup {"-x", "0", "2", "-1"}
\* The program's name, env::args()'s first element: anything.
AppNames == Tokens \cup {"tcping"}
\* What looking the host up may give: an address, an error, no address.
Lookups == {"address", "error", "empty"}

\* The match of lines 103-110: the option a flag stands for.
match_flag(a) ==
    CASE a = "-h" -> "HostName"
      [] a = "-p" -> "PortVal"
      [] a = "-i" -> "Intervals"
      [] a = "-t" -> "TimeOut"
      [] a = "-w" -> "Wait"
      [] OTHER -> "Invalid Parameters"

\* An insert that keeps the value a key already has.
insert_keep_first(map, key, val) ==
    [k \in DOMAIN map \cup {key} |-> IF k \in DOMAIN map THEN map[k] ELSE val]

\* HashMap::insert: the key's value is set, an earlier one replaced.
insert(map, key, val) ==
    [k \in DOMAIN map \cup {key} |-> IF k = key THEN val ELSE map[k]]

\* str::parse of an unsigned integer: the number a string of decimal digits
\* spells, -1 for Err (a sign "-", a letter, no digit).
Digits(val) ==
    CASE val = "0" -> 0
      [] val = "2" -> 2
      [] OTHER -> -1

parse_u32(val) == Digits(val)
parse_u64(val) == Digits(val)
parse_u16(val) == IF Digits(val) \in 0..65535 THEN Digits(val) ELSE -1

\* format!("{}:{}", host, port).to_socket_addrs() and socket_iter.next():
\* an error unless the port is a u16, and then what the lookup gives.
to_socket_addrs(host, port, lookup) ==
    IF parse_u16(port) = -1 THEN "error" ELSE lookup

Ok(v) == <<"Ok", v>>
Err(e) == <<"Err", e>>

\* A -w or -t value taken as it is, 0 seconds too.
seconds_as_given(val) == parse_u64(val)

\* Lines 138-155: a -w or -t value, coerced up to 1 second; -1 for Err.
seconds(val) ==
    IF parse_u64(val) = -1 THEN -1
    ELSE IF parse_u64(val) < 1 THEN 1 ELSE parse_u64(val)

\* Lines 119-177 with the dangling option accepted.
validate_no_dangling(opt, map, lookup) ==
    IF "Intervals" \notin DOMAIN map THEN Err("Missing Intervals argument")
    ELSE IF parse_u32(map["Intervals"]) = -1 THEN Err("Invalid Interval")
    ELSE IF parse_u32(map["Intervals"]) < 1 THEN Err("Need at least 1 Interval")
    ELSE IF "Wait" \in DOMAIN map /\ seconds(map["Wait"]) = -1
         THEN Err("Invalid Wait")
    ELSE IF "TimeOut" \in DOMAIN map /\ seconds(map["TimeOut"]) = -1
         THEN Err("Invalid Timeout")
    ELSE IF "HostName" \notin DOMAIN map THEN Err("Host required!")
    ELSE IF "PortVal" \notin DOMAIN map THEN Err("Port required!")
    ELSE IF to_socket_addrs(map["HostName"], map["PortVal"], lookup) = "error"
         THEN Err("Invalid host/port")
    ELSE IF to_socket_addrs(map["HostName"], map["PortVal"], lookup) = "empty"
         THEN Err("Unresolvable host/port")
    ELSE Ok([interval_count |-> parse_u32(map["Intervals"]),
             wait_interval |->
                 IF "Wait" \in DOMAIN map THEN seconds(map["Wait"]) ELSE 1,
             connection_timeout |->
                 IF "TimeOut" \in DOMAIN map THEN seconds(map["TimeOut"]) ELSE 5,
             target_host |-> map["HostName"],
             target_port |-> map["PortVal"]])

\* Lines 119-177 with the test of line 134 lost and no coercion to 1 second.
validate_unchecked(opt, map, lookup) ==
    IF opt # "Unset" THEN Err("Invalid Parameters")
    ELSE IF "Intervals" \notin DOMAIN map THEN Err("Missing Intervals argument")
    ELSE IF parse_u32(map["Intervals"]) = -1 THEN Err("Invalid Interval")
    ELSE IF "HostName" \notin DOMAIN map THEN Err("Host required!")
    ELSE IF "PortVal" \notin DOMAIN map THEN Err("Port required!")
    ELSE IF to_socket_addrs(map["HostName"], map["PortVal"], lookup) = "error"
         THEN Err("Invalid host/port")
    ELSE IF to_socket_addrs(map["HostName"], map["PortVal"], lookup) = "empty"
         THEN Err("Unresolvable host/port")
    ELSE Ok([interval_count |-> parse_u32(map["Intervals"]),
             wait_interval |->
                 IF "Wait" \in DOMAIN map THEN parse_u64(map["Wait"]) ELSE 1,
             connection_timeout |->
                 IF "TimeOut" \in DOMAIN map THEN parse_u64(map["TimeOut"]) ELSE 5,
             target_host |-> map["HostName"],
             target_port |-> map["PortVal"]])

\* Lines 119-177: what ProgParameters::new returns once the scan is over,
\* from the scan's state, the option map and the outcome of the lookup.
validate(opt, map, lookup) ==
    IF opt # "Unset" THEN Err("Invalid Parameters")
    ELSE IF "Intervals" \notin DOMAIN map THEN Err("Missing Intervals argument")
    ELSE IF parse_u32(map["Intervals"]) = -1 THEN Err("Invalid Interval")
    ELSE IF parse_u32(map["Intervals"]) < 1 THEN Err("Need at least 1 Interval")
    ELSE IF "Wait" \in DOMAIN map /\ seconds(map["Wait"]) = -1
         THEN Err("Invalid Wait")
    ELSE IF "TimeOut" \in DOMAIN map /\ seconds(map["TimeOut"]) = -1
         THEN Err("Invalid Timeout")
    ELSE IF "HostName" \notin DOMAIN map THEN Err("Host required!")
    ELSE IF "PortVal" \notin DOMAIN map THEN Err("Port required!")
    ELSE IF to_socket_addrs(map["HostName"], map["PortVal"], lookup) = "error"
         THEN Err("Invalid host/port")
    ELSE IF to_socket_addrs(map["HostName"], map["PortVal"], lookup) = "empty"
         THEN Err("Unresolvable host/port")
    ELSE Ok([interval_count |-> parse_u32(map["Intervals"]),
             wait_interval |->
                 IF "Wait" \in DOMAIN map THEN seconds(map["Wait"]) ELSE 1,
             connection_timeout |->
                 IF "TimeOut" \in DOMAIN map THEN seconds(map["TimeOut"]) ELSE 5,
             target_host |-> map["HostName"],
             target_port |-> map["PortVal"]])

\* main, lines 227-230: ProgParameters::new returned Err(err); the error and
\* the usage are printed and the process exits with status 1.
usage_exit(err) ==
    /\ output' = Append(output, <<"ERROR", err, "Usage">>)
    /\ exit_code' = 1
    /\ pc' = "usage_exit"

\* main at line 227, ProgParameters::new at line 93: nothing scanned yet.
InitMain ==
    /\ result_col = new
    /\ prog_params = "none"
    /\ pc = "scan"
    /\ stream = "none"
    /\ output = <<>>
    /\ exit_code = -1
    /\ samples = <<>>
    /\ connects = <<>>
    /\ waits = 0
    /\ cmd_line_opt = "AppName"
    /\ option_map = EmptyMap
    /\ argn = 0
    /\ arg = ""
    /\ args = <<>>

\* Line 100: the first argument, the program's name, is passed over.
ScanAppName(a) ==
    /\ pc = "scan"
    /\ cmd_line_opt = "AppName"
    /\ arg' = a
    /\ argn' = argn + 1
    /\ cmd_line_opt' = "Unset"
    /\ UNCHANGED <<result_col, prog_params, pc, stream, output, exit_code,
                   samples, connects, waits, option_map>>

\* Lines 102-108: an argument where a flag is expected, and it is one.
ScanFlag(a) ==
    /\ pc = "scan"
    /\ cmd_line_opt = "Unset"
    /\ match_flag(a) # "Invalid Parameters"
    /\ arg' = a
    /\ argn' = argn + 1
    /\ cmd_line_opt' = match_flag(a)
    /\ UNCHANGED <<result_col, prog_params, pc, stream, output, exit_code,
                   samples, connects, waits, option_map>>

\* Line 109: an argument where a flag is expected, and it is none:
\* ProgParameters::new returns Err("Invalid Parameters").
ScanInvalid(a) ==
    /\ pc = "scan"
    /\ cmd_line_opt = "Unset"
    /\ match_flag(a) = "Invalid Parameters"
    /\ arg' = a
    /\ argn' = argn + 1
    /\ usage_exit(match_flag(a))
    /\ UNCHANGED <<result_col, prog_params, stream, samples, connects, waits,
                   cmd_line_opt, option_map>>

\* Lines 113-116: an argument where a value is expected.
ScanValue(a) ==
    /\ pc = "scan"
    /\ cmd_line_opt \notin {"AppName", "Unset"}
    /\ arg' = a
    /\ argn' = argn + 1
    /\ option_map' = insert(option_map, cmd_line_opt, a)
    /\ cmd_line_opt' = "Unset"
    /\ UNCHANGED <<result_col, prog_params, pc, stream, output, exit_code,
                   samples, connects, waits>>

\* Lines 119-177 and 227-231: the arguments are exhausted and
\* ProgParameters::new returns Ok; main creates the ResultCollection and
\* enters run_connection_tests.
NewOk(lookup) ==
    /\ pc = "scan"
    /\ validate(cmd_line_opt, option_map, lookup)[1] = "Ok"
    /\ prog_params' = validate(cmd_line_opt, option_map, lookup)[2]
    /\ result_col' = new
    /\ pc' = "connect"
    /\ UNCHANGED <<scan_vars, stream, output, exit_code, samples, connects, waits>>

\* Lines 119-175 and 227-230: the arguments are exhausted and
\* ProgParameters::new returns Err.
NewErr(lookup) ==
    /\ pc = "scan"
    /\ validate(cmd_line_opt, option_map, lookup)[1] = "Err"
    /\ usage_exit(validate(cmd_line_opt, option_map, lookup)[2])
    /\ UNCHANGED <<scan_vars, result_col, prog_params, stream, samples,
                   connects, waits>>

\* main from its first line: the scan of at most MaxPairs flag/value pairs
\* after the program's name, the validation, the run and the summary.
NextMain ==
    \/ \E a \in AppNames :
           argn < 1 + 2 * MaxPairs /\ ScanAppName(a) /\ UNCHANGED args
    \/ \E a \in Tokens :
           argn < 1 + 2 * MaxPairs /\ ScanFlag(a) /\ UNCHANGED args
    \/ \E a \in Tokens :
           argn < 1 + 2 * MaxPairs /\ ScanInvalid(a) /\ UNCHANGED args
    \/ \E a \in Tokens :
           argn < 1 + 2 * MaxPairs /\ ScanValue(a) /\ UNCHANGED args
    \/ \E lookup \in Lookups : NewOk(lookup)
    \/ \E lookup \in Lookups : NewErr(lookup)
    \/ Next

SpecMain == InitMain /\ [][NextMain]_vars

\* The scan alone, of at most MaxScan arguments, with its history kept.
NextScan ==
    \/ \E a \in AppNames :
           argn < MaxScan /\ ScanAppName(a) /\ args' = Append(args, a)
    \/ \E a \in Tokens :
           argn < MaxScan /\ ScanFlag(a) /\ args' = Append(args, a)
    \/ \E a \in Tokens :
           argn < MaxScan /\ ScanInvalid(a) /\ args' = Append(args, a)
    \/ \E a \in Tokens :
           argn < MaxScan /\ ScanValue(a) /\ args' = Append(args, a)

SpecScan == InitMain /\ [][NextScan]_vars

\* ------------------------------------------ what the history says
\* The values of the successful add_interval calls, in call order.
RECURSIVE SuccessfulMillis(_)
SuccessfulMillis(s) ==
    IF s = <<>> THEN <<>>
    ELSE LET rest == SuccessfulMillis(SubSeq(s, 1, Len(s) - 1))
             last == s[Len(s)]
         IN  IF last[1] THEN Append(rest, last[2]) ELSE rest

RECURSIVE SeqSum(_)
SeqSum(s) == IF s = <<>> THEN 0 ELSE s[1] + SeqSum(Tail(s))

Range(s) == {s[i] : i \in 1..Len(s)}
Smallest(S) == CHOOSE x \in S : \A y \in S : x <= y
Largest(S) == CHOOSE x \in S : \A y \in S : y <= x

\* The number of i with s[i] = x.
Occurrences(s, x) == Cardinality({i \in 1..Len(s) : s[i] = x})

\* The population variance of the values of s # <<>>: the mean of the
\* squared deviations from the mean.
RECURSIVE SumSqDev(_, _)
SumSqDev(s, mu) ==
    IF s = <<>> THEN F(0)
    ELSE RAdd(RMul(RSub(F(s[1]), mu), RSub(F(s[1]), mu)), SumSqDev(Tail(s), mu))

PopulationVariance(s) ==
    RDiv(SumSqDev(s, Rat(SeqSum(s), Len(s))), F(Len(s)))

\* s holds exactly one 10, one 20 and one 30.
IsTenTwentyThirty(s) ==
    /\ Len(s) = 3
    /\ Range(s) = {10, 20, 30}

LastSample(s) == s[Len(s)]
Successes == SuccessfulMillis(samples)

\* ------------------------------------------------------------ claims
\* The runner is over: it returned to main, or the process ended in it.
RunnerOver == pc \in {"summary", "exited", "panicked"}

\* What does hold of a run in which no shutdown fails: when the runner has
\* returned, every attempt and every wait but the last one's was made.
ReturnedRunIsComplete ==
    pc \in {"summary", "exited"} =>
        /\ Len(connects) = prog_params.interval_count
        /\ result_col.iterations = prog_params.interval_count
        /\ waits = prog_params.interval_count - 1

\* C1: the runner performs exactly interval_count connection attempts, one
\* per loop iteration, and then ends; at its end iterations = interval_count
\* and successes is the number of connects that succeeded.
C1_ExactlyIntervalCountAttempts ==
    /\ result_col.iterations = Len(connects)
    /\ result_col.successes = Occurrences(connects, TRUE)
    /\ Len(connects) <= prog_params.interval_count
    /\ RunnerOver => Len(connects) = prog_params.interval_count

\* C2: once the runner is entered no per-attempt event ends the process
\* abnormally; the run reaches display_summary and exits with code 0.
C2_NoAbnormalTermination ==
    /\ pc # "panicked"
    /\ exit_code \in {-1, 0}
    /\ exit_code = 0 => /\ output # <<>>
                        /\ LastSample(output)[1] = "Summary"

\* C3: the runner performs exactly interval_count - 1 inter-attempt waits:
\* one after each attempt but the last, none after the last.
C3_ExactlyNMinusOneWaits ==
    /\ waits <= prog_params.interval_count - 1
    /\ RunnerOver => waits = prog_params.interval_count - 1

\* C4: successes <= iterations always, and every add_interval call adds
\* exactly 1 to iterations and 1 (success) or 0 (failure) to successes.
C4_CountsPerCall ==
    /\ [](result_col.successes <= result_col.iterations)
    /\ [][/\ result_col'.iterations = result_col.iterations + 1
          /\ result_col'.successes =
                 result_col.successes + (IF LastSample(samples')[1] THEN 1 ELSE 0)
         ]_vars

C4_Witness ==
    /\ result_col.iterations >= 3
    /\ result_col.successes >= 1
    /\ result_col.successes < result_col.iterations

\* C5: an add_interval call with successful = false, whatever value it is
\* handed, changes iterations only: successes, millis_added, millis_squared,
\* millis_min and millis_max, and so the four statistics, stay as they were.
C5_FailureChangesOnlyIterations ==
    [][~LastSample(samples')[1] =>
          /\ result_col' = [result_col EXCEPT !.iterations = @ + 1]
          /\ get_avg(result_col') = get_avg(result_col)
          /\ get_std_dev(result_col') = get_std_dev(result_col)
          /\ get_min(result_col') = get_min(result_col)
          /\ get_max(result_col') = get_max(result_col)
      ]_vars

C5_Witness ==
    /\ Len(samples) >= 2
    /\ result_col.successes >= 1
    /\ ~LastSample(samples)[1]
    /\ LastSample(samples)[2] # 0

\* C6: while successes = 0 the four statistics are all 0.0, never the seeds
\* of millis_min and millis_max.
C6_ZeroWithoutSuccess ==
    result_col.successes = 0 =>
        /\ get_avg(result_col) = F(0)
        /\ get_min(result_col) = F(0)
        /\ get_max(result_col) = F(0)
        /\ get_std_dev(result_col) = F(0)

C6_Witness ==
    /\ result_col.successes = 0
    /\ result_col.iterations >= 2
    /\ \E i \in 1..Len(samples) : samples[i][2] # 0

\* C7: after exactly one successful call, with value v, and any failed
\* calls around it, mean = min = max = v and the standard deviation is 0.
C7_SingleSuccess ==
    Len(Successes) = 1 =>
        /\ get_avg(result_col) = F(Successes[1])
        /\ get_min(result_col) = F(Successes[1])
        /\ get_max(result_col) = F(Successes[1])
        /\ get_std_dev(result_col) = F(0)

C7_Witness ==
    /\ Len(samples) = 3
    /\ ~samples[1][1]
    /\ samples[2] = <<TRUE, 20>>
    /\ ~samples[3][1]

\* C8: whenever successes > 0, millis_min <= millis_max and min() <= max().
C8_MinLeMax ==
    result_col.successes > 0 =>
        /\ result_col.millis_min <= result_col.millis_max
        /\ RLe(get_min(result_col), get_max(result_col))

C8_Witness ==
    /\ result_col.successes >= 2
    /\ result_col.millis_min < result_col.millis_max

\* C9: with at least one success, min() is the smallest and max() the
\* largest successful value and mean() is their sum divided by their number,
\* whatever the order and the failures between; 10, 20, 30 give 20, 10, 30.
C9_ExtremaAndMean ==
    Len(Successes) > 0 =>
        /\ get_min(result_col) = F(Smallest(Range(Successes)))
        /\ get_max(result_col) = F(Largest(Range(Successes)))
        /\ get_avg(result_col) = Rat(SeqSum(Successes), Len(Successes))
        /\ IsTenTwentyThirty(Successes) =>
               /\ get_avg(result_col) = F(20)
               /\ get_min(result_col) = F(10)
               /\ get_max(result_col) = F(30)

C9_Witness ==
    /\ Successes = <<30, 10, 20>>
    /\ ~samples[2][1]
    /\ get_avg(result_col) = F(20)

\* C10: with n = successes > 0 the variance under the root of get_std_dev
\* is the population variance of the successful values: n^2 * variance =
\* n * millis_squared - millis_added^2, it is not negative, and 10, 20, 30
\* give 200/3.
C10_PopulationVariance ==
    result_col.successes > 0 =>
        LET n == result_col.successes
            var == variance(result_col)
        IN  /\ var = PopulationVariance(Successes)
            /\ RMul(F(n * n), var) =
                   F(n * result_col.millis_squared
                       - result_col.millis_added * result_col.millis_added)
            /\ var[1] >= 0
            /\ IsTenTwentyThirty(Successes) =>
                   /\ var = <<200, 3>>
                   /\ get_std_dev(result_col) = Sqrt(<<200, 3>>)

C10_Witness ==
    /\ Successes = <<20, 30, 10>>
    /\ variance(result_col) = <<200, 3>>

\* C14: attempts are strictly sequential: a connect begins only when no
\* connection is open, every earlier attempt has been recorded in the
\* accumulator and the wait after every earlier attempt has been made; a
\* connection is open only between its connect and its shutdown.
C14_StrictlySequential ==
    /\ [](stream = "open" => pc = "shutdown")
    /\ [][Len(connects') # Len(connects) =>
              /\ Len(connects') = Len(connects) + 1
              /\ stream = "none"
              /\ result_col.iterations = Len(connects)
              /\ Len(samples) = Len(connects)
              /\ waits = Len(connects)
              /\ result_col'.iterations = Len(connects')
         ]_vars

C14_Witness ==
    /\ Len(connects) = 3
    /\ connects[1]
    /\ ~connects[2]
    /\ waits = 2
    /\ stream = "open"

\* The status lines of the output: all its lines but a summary.
StatusLines == SelectSeq(output, LAMBDA l : l[1] \in {"Connected", "Failed"})
SummaryLines == SelectSeq(output, LAMBDA l : l[1] = "Summary")

\* C15: the output of a run is one status line per attempt, Connected
\* exactly for a recorded success and Failed exactly for a recorded failure,
\* followed by exactly one summary whose counts are the number of Connected
\* lines and of status lines; the accumulator is as the loop left it.
C15_OutputOfARun ==
    /\ Len(StatusLines) = Len(samples)
    /\ \A i \in 1..Len(samples) :
           StatusLines[i][1] = (IF samples[i][1] THEN "Connected" ELSE "Failed")
    /\ Len(SummaryLines) <= 1
    /\ exit_code # -1 =>
           /\ output = Append(StatusLines, LastSample(output))
           /\ Len(StatusLines) = prog_params.interval_count
           /\ LastSample(output)[1] = "Summary"
           /\ LastSample(output)[2] =
                  Len(SelectSeq(StatusLines, LAMBDA l : l[1] = "Connected"))
           /\ LastSample(output)[3] = Len(StatusLines)
           /\ result_col.iterations = Len(samples)

\* C17: the loop is left only with iterations = interval_count; iterations
\* never passes interval_count, so the equality is always reached.
C17_LoopLeftOnEquality ==
    /\ result_col.iterations <= prog_params.interval_count
    /\ pc = "test" => result_col.iterations >= 1
    /\ RunnerOver => result_col.iterations = prog_params.interval_count

\* What does hold of the counter in every run: it never passes
\* interval_count, goes up by one at a time, and the runner returns to main
\* (the break of line 206) only on the equality.
CounterNeverPassesTarget ==
    /\ [](result_col.iterations <= prog_params.interval_count)
    /\ [][/\ result_col'.iterations \in
                 {result_col.iterations, result_col.iterations + 1}
          /\ pc' = "summary" /\ pc = "test" =>
                 result_col.iterations = prog_params.interval_count
         ]_vars

IsNumber(tok) == \E n \in 0..9 : ToString(n) = tok
NumberOf(tok) ==
    IF IsNumber(tok) THEN CHOOSE n \in 0..9 : ToString(n) = tok ELSE -1

\* The step on which the arguments are exhausted and new returns.
EndOfArgs == pc = "scan" /\ pc' # "scan" /\ argn' = argn
\* The step that reads an argument where a flag is expected.
ReadsFlag == pc = "scan" /\ cmd_line_opt = "Unset" /\ argn' = argn + 1
\* ProgParameters::new returned Ok and main went on.
Accepted == pc \notin {"scan", "usage_exit"}

RequiredOpts == {"HostName", "PortVal", "Intervals"}

\* C11: an attempt count of 0, a negative or non-numeric -t or -w value and
\* an unrecognized flag, wherever it stands in the list, are rejected: main
\* prints the error with the usage, exits with 1 and never enters the
\* runner (no connection attempt, no add_interval call).
C11_RejectedBeforeTheRun ==
    /\ [](pc = "usage_exit" =>
              /\ exit_code = 1
              /\ Len(output) = 1
              /\ output[1][1] = "ERROR" /\ output[1][3] = "Usage"
              /\ connects = <<>> /\ samples = <<>> /\ waits = 0
              /\ result_col.iterations = 0)
    /\ [][pc # "usage_exit"]_<<pc, argn>>
    /\ [][EndOfArgs /\ "Intervals" \in DOMAIN option_map
              /\ NumberOf(option_map["Intervals"]) = 0
            => pc' = "usage_exit"]_<<pc, argn>>
    /\ [][EndOfArgs /\ (\E k \in {"TimeOut", "Wait"} \cap DOMAIN option_map :
                            ~IsNumber(option_map[k]))
            => pc' = "usage_exit"]_<<pc, argn>>
    /\ [][ReadsFlag /\ arg' \notin KnownFlags => pc' = "usage_exit"]_<<pc, argn>>

C11_Witness ==
    /\ pc = "usage_exit"
    /\ RequiredOpts \subseteq DOMAIN option_map
    /\ option_map["Intervals"] = "2"
    /\ "Wait" \in DOMAIN option_map
    /\ option_map["Wait"] = "-1"
    /\ output[1][2] = "Invalid Wait"

\* C12: new returns a parse failure when an argument standing where a flag
\* is expected is no known flag, when -h, -p or -i is missing, and when the
\* list ends with a flag that has no value.
C12_ParseFailures ==
    /\ [][ReadsFlag /\ arg' \notin KnownFlags =>
              /\ pc' = "usage_exit"
              /\ output' = <<<<"ERROR", "Invalid Parameters", "Usage">>>>]_<<pc, argn>>
    /\ [][EndOfArgs /\ ~(RequiredOpts \subseteq DOMAIN option_map)
            => pc' = "usage_exit"]_<<pc, argn>>
    /\ [][EndOfArgs /\ cmd_line_opt # "Unset" =>
              /\ pc' = "usage_exit"
              /\ output' = <<<<"ERROR", "Invalid Parameters", "Usage">>>>]_<<pc, argn>>

C12_Witness ==
    /\ pc = "usage_exit"
    /\ cmd_line_opt = "TimeOut"
    /\ DOMAIN option_map = RequiredOpts
    /\ option_map["Intervals"] = "2"
    /\ option_map["PortVal"] = "2"
    /\ output[1][2] = "Invalid Parameters"

C16_PortInRange ==
    Accepted => NumberOf(prog_params.target_port) \in 1..65535

\* The indices of args where a flag is expected, and those among them
\* whose flag has got its value.
FlagPositions == {i \in 2..Len(args) : i % 2 = 0}
Valued(key) == {i \in FlagPositions : i < Len(args) /\ match_flag(args[i]) = key}
Highest(S) == CHOOSE i \in S : \A j \in S : j <= i

\* C19: after the program's name the scan alternates between flag and
\* value: only an argument at a flag position is checked against the known
\* flags, an argument at a value position is stored for the flag before it
\* whatever it is, and a flag given more than once keeps its last value.
C19_ScanAlternates ==
    /\ pc = "usage_exit" <=> \E i \in FlagPositions : args[i] \notin KnownFlags
    /\ pc = "usage_exit" => args[Len(args)] \notin KnownFlags
    /\ pc = "scan" =>
           /\ cmd_line_opt =
                  (IF Len(args) = 0 THEN "AppName"
                   ELSE IF Len(args) % 2 = 1 THEN "Unset"
                   ELSE match_flag(args[Len(args)]))
           /\ DOMAIN option_map =
                  {match_flag(args[i]) : i \in {j \in FlagPositions : j < Len(args)}}
           /\ \A key \in DOMAIN option_map :
                  option_map[key] = args[Highest(Valued(key)) + 1]

C19_Witness ==
    /\ pc = "scan"
    /\ args = <<"-h", "-w", "-h", "-w", "2">>
    /\ option_map = [k \in {"Wait"} |-> "2"]

====
